---- MODULE Spec2Model ----
(***************************************************************************)
(* Model of the CRUD + RBAC platform: the model-definition store           *)
(* (src/lib/model-persistence.ts), the RBAC middleware                     *)
(* (RBACMiddleware, listed in README.md) and the dynamic CRUD route        *)
(* handlers GET/POST/PUT/DELETE of /api/crud/[modelName]                   *)
(* (unnamed/part_001).                                                     *)
(*                                                                         *)
(* JavaScript values are pairs <<type, text>>; objects are functions whose *)
(* DOMAIN is the set of own keys; `null` results are the empty sequence    *)
(* and a present result d is <<d>>.  A definition file holds the JSON text *)
(* of the definition, a sequence of tokens.                                *)
(***************************************************************************)
EXTENDS Integers, Sequences, FiniteSets, TLC

\* ------------------------------------------------------------------ bounds

\* Number of record ids of the record store, "1" .. ToString(MaxRecords).
MaxRecords == 2

\* The last millisecond of the clock.
MaxClock == 2

\* ------------------------------------------------------- JavaScript values

Undefined == <<"undefined", "">>
Str(s) == <<"string", s>>
Num(s) == <<"number", s>>
Bool(s) == <<"boolean", s>>
Null == <<"null", "">>

\* ToBoolean of a JavaScript value: `if (v)`, `!v`, `v || w`.
Truthy(v) ==
    /\ v # Undefined
    /\ v # Str("")
    /\ v # Num("0")
    /\ v # Num("NaN")
    /\ v # Bool("false")
    /\ v # Null

\* obj[key] of a plain object: an absent key reads as undefined.
Get(obj, key) == IF key \in DOMAIN obj THEN obj[key] ELSE Undefined

\* { ...a, ...b }: own keys of b override those of a.
Spread(a, b) ==
    [k \in DOMAIN a \cup DOMAIN b |-> IF k \in DOMAIN b THEN b[k] ELSE a[k]]

\* Array.prototype.includes on an array of strings.
Includes(arr, x) == \E i \in DOMAIN arr : arr[i] = x

\* The empty object {} (a function with no keys).
EmptyObject == <<>>

\* new Date().toISOString(): the value is opaque to every handler modelled.
NowISO == Str("<now>")

\* ------------------------------------------------------------ vocabulary

Actions == {"create", "read", "update", "delete"}

\* Roles a principal may carry.  "Viewer" is listed in no rbac table of the
\* authorization specification (an unlisted role); "constructor" is a key every parsed JSON object
\* inherits from Object.prototype, so rbac["constructor"] is a function, not
\* undefined and not an array.
Roles == {"Admin", "Manager", "Viewer", "constructor"}
InheritedKeys == {"constructor"}

Users == {"user-1", "user-2"}

\* The owner values records may hold: the users and one more id.
Owners == Users \cup {"user-3"}
Principals == [id : Users, role : Roles]

\* The principal every handler of the demo hard-codes
\* (`userRole = 'Admin'`, `currentUserId = 'user-1'`).
DemoUser == [id |-> "user-1", role |-> "Admin"]

\* No id: searchParams.get('id') is null or '', resourceId is undefined or ''.
\* All of them are falsy and every handler only tests `!id` / `if (resourceId)`.
NoId == ""
ResIds == {ToString(i) : i \in 1..MaxRecords}
IdInputs == {NoId} \cup ResIds

ModelNames == {"Task", "Product"}

\* --------------------------------------------------------- model definitions

\* One entry of ModelDefinition.fields (model-persistence.ts): `default` is
\* stored as text, or undefined.
Field(n, t, req, dflt) == [name |-> n, type |-> t, required |-> req, default |-> dflt]

\* A ModelDefinition document: rbac maps the listed roles to arrays of
\* actions; ownerField is a string or undefined ('' is what the definition
\* form submits for "none").
ModelDefinition(n, fs, owner, rb) ==
    [name |-> n, fields |-> fs, ownerField |-> owner, rbac |-> rb]

AllActions == <<"create", "read", "update", "delete">>
PermLists == {<<"read">>, <<"create", "read", "update">>, AllActions}
RbacTables == [{"Admin", "Manager"} -> PermLists]
OwnerFields == {Undefined, Str(""), Str("ownerId")}

TaskFields ==
    << Field("title", "string", TRUE, Undefined),
       Field("ownerId", "string", FALSE, Undefined) >>

\* The definitions the authorization specification draws from.
AuthDefs ==
    {ModelDefinition("Task", TaskFields, o, rb) : o \in OwnerFields, rb \in RbacTables}

\* Request payloads of the authorization specification: the ownerField key is
\* absent or names a user; one payload carries keys the server sets itself.
AuthBodies ==
    {[k \in {"title"} |-> Str("Fix")]}
        \cup {[k \in {"title", "ownerId"} |->
                 IF k = "title" THEN Str("Fix") ELSE Str(u)] : u \in Users}
        \cup {[k \in {"title", "id", "createdAt", "updatedAt"} |->
                 CASE k = "title" -> Str("Fix")
                   [] k = "id" -> Str("2")
                   [] OTHER -> Str("<then>")]}

\* The definitions the validation specification draws from: model Product with
\* any non-empty selection of the fields name:string, price:number and
\* isActive:boolean, in this order, each optional or required, with or without
\* a default; the rbac table is the README's (Admin all, Manager create, read
\* and update, Viewer read); no ownerField.
ProductFieldNames == <<"name", "price", "isActive">>
ProductFieldType == [name |-> "string", price |-> "number", isActive |-> "boolean"]
ProductDefault == [name |-> "Widget", price |-> "42", isActive |-> "true"]
FieldOptions ==
    {"absent", "optional", "optional-default", "required", "required-default"}

ProductField(n, option) ==
    IF option = "absent" THEN <<>>
    ELSE << Field(n, ProductFieldType[n],
                  option \in {"required", "required-default"},
                  IF option \in {"optional-default", "required-default"}
                  THEN Str(ProductDefault[n]) ELSE Undefined) >>

ProductFields(choice) ==
    ProductField("name", choice["name"])
        \o ProductField("price", choice["price"])
        \o ProductField("isActive", choice["isActive"])

DefaultRbac ==
    [Admin |-> AllActions, Manager |-> <<"create", "read", "update">>,
     Viewer |-> <<"read">>]

ValidationDefs ==
    {ModelDefinition("Product", ProductFields(choice), Undefined, DefaultRbac) :
        choice \in {c \in [{"name", "price", "isActive"} -> FieldOptions] :
                       \E n \in DOMAIN c : c[n] # "absent"}}

\* Request payloads of the validation specification: every key is absent, a
\* well-formed value, or a falsy value.
ProductValues ==
    [name |-> {Undefined, Str("Laptop"), Str("")},
     price |-> {Undefined, Str("999.99"), Num("0")},
     isActive |-> {Undefined, Bool("false")}]

ValidationBodies ==
    {[k \in {n \in DOMAIN supplied : supplied[n] # Undefined} |-> supplied[k]] :
        supplied \in {f \in [{"name", "price", "isActive"} ->
                               UNION {ProductValues[n] : n \in DOMAIN ProductValues}] :
                         \A n \in DOMAIN f : f[n] \in ProductValues[n]}}

\* The principals of the validation specification.
ValidationUsers == {DemoUser, [id |-> "user-2", role |-> "Viewer"]}

\* ------------------------------------------------------------------- state

VARIABLES
    files,      \* the models directory: model name -> <<>> (no file) or <<text>>
    records,    \* the record store: record id -> owner value, or NoRecord
    req,        \* the request in flight (or the last one answered)
    now,        \* the clock new Date() reads, in milliseconds
    ops,        \* the ModelPersistence call each caller has in flight
    db,         \* the table ModelDefinition: row id -> <<>> (no row) or <<row>>
    publishing, \* the row id each publish request in flight was called with
    history     \* the names published and the names deleted so far

\* The state of the model designer (the table and its publish requests).
dbVars == <<db, publishing, history>>

vars == <<files, records, req, now, ops, dbVars>>

\* The ids of the rows of ModelDefinition (`id TEXT PRIMARY KEY`).
ModelIds == {"m1", "m2"}
NoModel == "<no model>"

\* The table is empty and no publish request is in flight.
EmptyDb ==
    /\ db = [i \in ModelIds |-> <<>>]
    /\ publishing = [p \in {"p1", "p2"} |-> NoModel]
    /\ history = [published |-> {}, deleted |-> {}]

NoRecord == "<no record>"

\* ------------------------------------------------------- ModelPersistence

\* The text JSON.stringify writes and JSON.parse reads, as a sequence of
\* tokens: the braces and one member <<key, value>> per own key.
LeftBrace == <<"{", "">>
RightBrace == <<"}", "">>
Member(key, value) == <<key, value>>

\* The keys of a stored definition, in the order saveModel's object literal
\* lists them after the spread of the ModelDefinition.
KeyOrder ==
    <<"name", "tableName", "fields", "ownerField", "rbac", "createdAt", "updatedAt">>

\* The optional scalar keys: JSON.stringify omits them when undefined.
OptionalKeys == {"tableName", "ownerField", "createdAt", "updatedAt"}

\* JSON.stringify of one element of `fields`: an undefined default is omitted.
StringifyField(f) ==
    [k \in {j \in DOMAIN f : j # "default" \/ f[j] # Undefined} |-> f[k]]

\* JSON.stringify of the value of one key.
StringifyValue(key, v) ==
    IF key = "fields" THEN [i \in DOMAIN v |-> StringifyField(v[i])] ELSE v

\* JSON.stringify(obj, null, 2).
JSONstringify(obj) ==
    LET Kept(k) == /\ k \in DOMAIN obj
                   /\ (k \in OptionalKeys => obj[k] # Undefined)
        keys == SelectSeq(KeyOrder, Kept)
    IN  <<LeftBrace>>
          \o [i \in 1..Len(keys) |-> Member(keys[i], StringifyValue(keys[i], obj[keys[i]]))]
          \o <<RightBrace>>

\* JSON.parse accepts a text: one object, nothing missing and nothing after
\* its closing brace.
Parsable(text) ==
    /\ Len(text) >= 2
    /\ text[1] = LeftBrace
    /\ text[Len(text)] = RightBrace
    /\ \A i \in 2..(Len(text) - 1) : text[i][1] \notin {"{", "}"}

\* JSON.parse of a text it accepts (a repeated key keeps its last value).
JSONparse(text) ==
    LET inner == 2..(Len(text) - 1)
        Last(k) == CHOOSE i \in inner :
                      text[i][1] = k /\ \A j \in inner : text[j][1] = k => j <= i
    IN  [k \in {text[i][1] : i \in inner} |-> text[Last(k)][2]]

\* fs.readFile(filePath, 'utf-8') throws (ENOENT) when the file is absent.
ReadFileThrows(store, modelName) ==
    modelName \notin DOMAIN store \/ store[modelName] = <<>>

\* loadModel: the parsed file, or null (<<>>) when reading or parsing throws.
loadModel(store, modelName) ==
    IF ReadFileThrows(store, modelName) THEN <<>>
    ELSE IF ~Parsable(store[modelName][1]) THEN <<>>
    ELSE <<JSONparse(store[modelName][1])>>

\* new Date().toISOString() at millisecond t, and the Date it parses back to.
ISO(t) == Str(ToString(t))
TimeOf(v) == CHOOSE t \in 0..(MaxClock + 1) : ISO(t) = v

\* saveModel's modelWithMetadata: both stamps are set, whatever the model
\* carried; t1 and t2 are the two readings of the clock.
modelWithMetadata(model, t1, t2) ==
    Spread(model, [k \in {"createdAt", "updatedAt"} |->
                      IF k = "createdAt" THEN ISO(t1) ELSE ISO(t2)])

\* updateModel's updatedModel.
updatedModel(existingModel, updates, t) ==
    Spread(Spread(existingModel, updates), [k \in {"updatedAt"} |-> ISO(t)])

\* The content of a file.
Content(store, name) == IF ReadFileThrows(store, name) THEN <<>> ELSE store[name][1]

\* open(filePath, 'w') of fs.writeFile: the file is created or truncated.
Truncate(store, name) == [store EXCEPT ![name] = << <<>> >>]

\* write(fd, data) of fs.writeFile at the descriptor's own offset 0: what the
\* file holds beyond the data (written through another descriptor since the
\* truncation) stays.
WriteAt0(store, name, data) ==
    LET cur == Content(store, name)
    IN  [store EXCEPT ![name] = <<data \o SubSeq(cur, Len(data) + 1, Len(cur))>>]

\* Mutant of loadAllModels: the first unparsable file ends the loop in the
\* outer catch, which returns [].
loadAllModels_FailFast(store, dir) ==
    IF \E i \in DOMAIN dir :
          ~ReadFileThrows(store, dir[i]) /\ ~Parsable(Content(store, dir[i]))
    THEN <<>>
    ELSE LET Ok(n) == ~ReadFileThrows(store, n) /\ Parsable(Content(store, n))
             read == SelectSeq(dir, Ok)
         IN  [i \in 1..Len(read) |-> JSONparse(Content(store, read[i]))]

\* loadAllModels over the listing `dir` of readdir: each file is read and
\* parsed in its own try/catch, a failure skips the file.
loadAllModels(store, dir) ==
    LET Ok(n) == ~ReadFileThrows(store, n) /\ Parsable(Content(store, n))
        read == SelectSeq(dir, Ok)
    IN  [i \in 1..Len(read) |-> JSONparse(Content(store, read[i]))]

\* The callers of ModelPersistence (requests of the one server process).
Procs == {"p1", "p2"}

IdleOp ==
    [kind |-> "idle", pc |-> "idle", name |-> "", input |-> <<>>,
     data |-> <<>>, before |-> <<>>, result |-> <<>>, last |-> FALSE]

\* saveModel(model) up to the call of fs.writeFile; dt is the time between
\* the two `new Date()`.
SaveModelCall(p, model, dt) ==
    /\ ops[p].pc = "idle"
    /\ now + dt <= MaxClock
    /\ ops' = [ops EXCEPT ![p] =
                 [IdleOp EXCEPT !.kind = "saveModel", !.pc = "open",
                     !.name = model.name, !.input = model,
                     !.data = JSONstringify(modelWithMetadata(model, now, now + dt)),
                     !.before = files[model.name]]]
    /\ now' = now + dt
    /\ UNCHANGED <<files, records, req, dbVars>>

\* updateModel(modelName, updates) up to the call of fs.writeFile in
\* saveModel, or to `return false` when nothing is loaded.
UpdateModelCall(p, modelName, updates) ==
    /\ ops[p].pc = "idle"
    /\ LET existingModel == loadModel(files, modelName)
       IN  IF existingModel = <<>>
           THEN ops' = [ops EXCEPT ![p] =
                          [IdleOp EXCEPT !.kind = "updateModel", !.pc = "done",
                              !.name = modelName, !.before = files[modelName],
                              !.result = <<FALSE>>]]
           ELSE LET upd == updatedModel(existingModel[1], updates, now)
                IN  ops' = [ops EXCEPT ![p] =
                              [IdleOp EXCEPT !.kind = "updateModel", !.pc = "open",
                                  !.name = upd.name, !.input = upd,
                                  !.data = JSONstringify(modelWithMetadata(upd, now, now)),
                                  !.before = files[upd.name]]]
    /\ UNCHANGED <<files, records, req, now, dbVars>>

\* fs.writeFile, first step: the file is opened with flag 'w'.
WriteFileOpen(p) ==
    /\ ops[p].pc = "open"
    /\ files' = Truncate(files, ops[p].name)
    /\ ops' = [ops EXCEPT ![p].pc = "write"]
    /\ UNCHANGED <<records, req, now, dbVars>>

\* fs.writeFile, second step: the data is written and the call resolves
\* (updateModel then returns true).
WriteFileWrite(p) ==
    /\ ops[p].pc = "write"
    /\ files' = WriteAt0(files, ops[p].name, ops[p].data)
    /\ ops' = [q \in Procs |->
                 IF q = p THEN [ops[p] EXCEPT !.pc = "done", !.last = TRUE,
                                              !.result = <<TRUE>>]
                 ELSE [ops[q] EXCEPT !.last = FALSE]]
    /\ UNCHANGED <<records, req, now, dbVars>>

\* loadModel(modelName): the file is read and parsed.
LoadModelCall(p, modelName) ==
    /\ ops[p].pc = "idle"
    /\ ops' = [ops EXCEPT ![p] =
                 [IdleOp EXCEPT !.kind = "loadModel", !.pc = "done",
                     !.name = modelName, !.before = files[modelName],
                     !.result = loadModel(files, modelName)]]
    /\ UNCHANGED <<files, records, req, now, dbVars>>

\* loadAllModels(): readdir lists the files in the order `dir`.
LoadAllModelsCall(p, dir) ==
    /\ ops[p].pc = "idle"
    /\ {dir[i] : i \in DOMAIN dir} = {n \in DOMAIN files : files[n] # <<>>}
    /\ ops' = [ops EXCEPT ![p] =
                 [IdleOp EXCEPT !.kind = "loadAllModels", !.pc = "done",
                     !.result = loadAllModels(files, dir)]]
    /\ UNCHANGED <<files, records, req, now, dbVars>>

\* The caller takes the result of its ModelPersistence call.
Return(p) ==
    /\ ops[p].pc = "done"
    /\ ops' = [ops EXCEPT ![p] = IdleOp]
    /\ UNCHANGED <<files, records, req, now, dbVars>>

\* Time passes.
Tick ==
    /\ now < MaxClock
    /\ now' = now + 1
    /\ UNCHANGED <<files, records, req, ops, dbVars>>

\* ------------------------------------------------------ permission lookup

\* Mutant of Permissions: an unlisted role defaults to read access
\* (`|| ['read']`) instead of to no access.
Permissions_DefaultRead(modelDef, role) ==
    IF role \in DOMAIN modelDef.rbac THEN modelDef.rbac[role] ELSE <<"read">>

\* `modelDef.rbac[role] || []`: the listed array, [] for an unlisted role.
Permissions(modelDef, role) ==
    IF role \in DOMAIN modelDef.rbac THEN modelDef.rbac[role] ELSE <<>>

\* rbac[role] is a truthy non-array (an inherited property), so
\* `.includes(...)` throws a TypeError.
IncludesThrows(modelDef, role) ==
    role \notin DOMAIN modelDef.rbac /\ role \in InheritedKeys

\* ----------------------------------------------------------- record store

\* The answer to `fetch('/api/crud/<model>?id=<id>')` issued by
\* checkOwnership: not ok when the store has no such record, else the record,
\* of which only the ownerField value is modelled.
FetchOk(store, resourceId) ==
    resourceId \in DOMAIN store /\ store[resourceId] # NoRecord

\* The key under which the records of the store hold their owner.
OwnerColumn == "ownerId"

\* record[ownerField] of the fetched record.
FetchedOwner(store, resourceId, ownerField) ==
    IF ownerField = OwnerColumn THEN Str(store[resourceId]) ELSE Undefined

\* Mutant of checkOwnership: one particular owner lets everybody in.
checkOwnership_Leaky(store, resourceId, ownerField, userId) ==
    /\ FetchOk(store, resourceId)
    /\ \/ FetchedOwner(store, resourceId, ownerField) = Str(userId)
       \/ FetchedOwner(store, resourceId, ownerField) = Str("user-3")

\* checkOwnership: `response.ok` and `record[ownerField] === userId`.
checkOwnership(store, resourceId, ownerField, userId) ==
    /\ FetchOk(store, resourceId)
    /\ FetchedOwner(store, resourceId, ownerField) = Str(userId)

\* ------------------------------------------------ RBACMiddleware (README)

\* Mutant of checkPermissionAfterLoad: the ownership check is made before the
\* role check.
checkPermissionAfterLoad_OwnerFirst(loaded, user, action, resourceId) ==
    IF loaded = <<>> THEN "deny"
    ELSE LET modelDef == loaded[1] IN
         IF /\ action \in {"update", "delete"} /\ Truthy(Get(modelDef, "ownerField"))
            /\ user.role # "Admin" /\ Truthy(Str(resourceId))
         THEN "fetch"
         ELSE IF /\ user.role \in DOMAIN modelDef.rbac
                 /\ \E i \in DOMAIN modelDef.rbac[user.role] :
                       modelDef.rbac[user.role][i] = action
              THEN "allow" ELSE "deny"

\* The synchronous part of checkPermission that follows `await loadModel`:
\* "deny", "allow", or "fetch" when checkOwnership is called (the only place
\* the record store is read).
checkPermissionAfterLoad(loaded, user, action, resourceId) ==
    IF loaded = <<>> THEN "deny"
    ELSE LET modelDef == loaded[1] IN
         IF IncludesThrows(modelDef, user.role) THEN "deny"
         ELSE IF ~Includes(Permissions(modelDef, user.role), action) THEN "deny"
         ELSE IF action \in {"update", "delete"} /\ Truthy(Get(modelDef, "ownerField"))
              THEN IF user.role = "Admin" THEN "allow"
                   ELSE IF Truthy(Str(resourceId)) THEN "fetch"
                   ELSE "allow"
              ELSE "allow"

\* checkPermission as a function of the stores it reads (no step in between).
checkPermission(fileStore, recordStore, user, modelName, action, resourceId) ==
    LET verdict ==
            checkPermissionAfterLoad(loadModel(fileStore, modelName), user,
                                     action, resourceId)
    IN  IF verdict = "fetch"
        THEN checkOwnership(recordStore, resourceId,
                            Get(loadModel(fileStore, modelName)[1], "ownerField")[2],
                            user.id)
        ELSE verdict = "allow"

\* ------------------------------------------------- CRUD routes (part_001)

\* NextResponse.json(body, {status}): `error` is the body's error text ('' on
\* success), `record` the body otherwise.
Response(status, error, record) ==
    [status |-> status, error |-> error, named |-> <<>>, record |-> record]

ErrorResponse(status, error) == Response(status, error, EmptyObject)

\* `Field '${field.name}' is required`: `named` lists the fields the message names.
FieldRequired(fieldName) ==
    [status |-> 400, error |-> "Field is required", named |-> <<fieldName>>,
     record |-> EmptyObject]

\* parseFloat of a text: the number when the text is numeric, NaN otherwise.
NumericTexts == {"0", "42", "999.99"}
ParseFloat(text) == IF text \in NumericTexts THEN Num(text) ELSE Num("NaN")

\* One field of getMockData: the declared default (parsed for number and
\* boolean) or a sample; the random samples are opaque.
MockValue(field) ==
    CASE field.type = "number" ->
            IF Truthy(Get(field, "default")) THEN ParseFloat(Get(field, "default")[2])
            ELSE Num("<random>")
      [] field.type = "boolean" ->
            IF Truthy(Get(field, "default"))
            THEN Bool(IF Get(field, "default")[2] = "true" THEN "true" ELSE "false")
            ELSE Bool("<random>")
      [] OTHER ->
            IF Truthy(Get(field, "default")) THEN Get(field, "default") ELSE Str("<sample>")

getMockData(modelDef) ==
    LET fs == modelDef.fields
        names == {fs[i].name : i \in DOMAIN fs}
        \* a later field of the same name overwrites an earlier one
        last(n) == CHOOSE i \in DOMAIN fs :
                      fs[i].name = n /\ \A j \in DOMAIN fs : fs[j].name = n => j <= i
    IN  [n \in names |-> MockValue(fs[last(n)])]

\* `Array.from({ length: 5 }, ...)`: the number of records GET lists.
MockListLength == 5

\* Mutant of GET: no `if (!modelDef)` test, so reading `modelDef.rbac` of null
\* throws and the handler answers 500.
GET_NoNullCheck(loaded, user, id) ==
    IF loaded = <<>> THEN ErrorResponse(500, "Failed to fetch data")
    ELSE LET modelDef == loaded[1] IN
         IF IncludesThrows(modelDef, user.role)
         THEN ErrorResponse(500, "Failed to fetch data")
         ELSE IF ~Includes(Permissions(modelDef, user.role), "read")
         THEN ErrorResponse(403, "Insufficient permissions")
         ELSE Response(200, "", EmptyObject)

\* GET: load, role check for 'read', mock data (one record, or the list of
\* mock records keyed by their ids mock-1 .. mock-5).
GET(loaded, user, id) ==
    IF loaded = <<>> THEN ErrorResponse(404, "Model not found")
    ELSE LET modelDef == loaded[1] IN
         IF IncludesThrows(modelDef, user.role)
         THEN ErrorResponse(500, "Failed to fetch data")
         ELSE IF ~Includes(Permissions(modelDef, user.role), "read")
         THEN ErrorResponse(403, "Insufficient permissions")
         ELSE IF Truthy(Str(id))
         THEN Response(200, "",
                       Spread([k \in {"id"} |-> Str(id)], getMockData(modelDef)))
         ELSE Response(200, "",
                       [k \in {"mock-" \o ToString(i) : i \in 1..MockListLength} |->
                           getMockData(modelDef)])

\* Mutant of FirstMissing: the loop keeps the last rejected field instead of
\* returning at the first.
FirstMissing_Last(modelDef, body) ==
    LET fs == modelDef.fields
        bad == {i \in DOMAIN fs : fs[i].required /\ ~Truthy(Get(body, fs[i].name))}
    IN  IF bad = {} THEN 0 ELSE CHOOSE i \in bad : \A j \in bad : j <= i

\* The first field, in definition order, that POST's loop rejects:
\* `field.required && !body[field.name]`; 0 when there is none.
FirstMissing(modelDef, body) ==
    LET fs == modelDef.fields
        bad == {i \in DOMAIN fs : fs[i].required /\ ~Truthy(Get(body, fs[i].name))}
    IN  IF bad = {} THEN 0 ELSE CHOOSE i \in bad : \A j \in bad : i <= j

\* Mutant of POST: the required-field loop runs before the permission check.
POST_ValidatesFirst(loaded, user, body) ==
    IF loaded = <<>> THEN ErrorResponse(404, "Model not found")
    ELSE LET modelDef == loaded[1] IN
         IF FirstMissing(modelDef, body) # 0
         THEN FieldRequired(modelDef.fields[FirstMissing(modelDef, body)].name)
         ELSE IF IncludesThrows(modelDef, user.role)
         THEN ErrorResponse(500, "Failed to create record")
         ELSE IF ~Includes(Permissions(modelDef, user.role), "create")
         THEN ErrorResponse(403, "Insufficient permissions")
         ELSE Response(201, "",
                Spread(Spread([k \in {"id"} |-> Str("mock-<now>")], body),
                       [k \in {"createdAt", "updatedAt"} |-> NowISO]))

\* POST: load, role check for 'create', required fields, mock record.
POST(loaded, user, body) ==
    IF loaded = <<>> THEN ErrorResponse(404, "Model not found")
    ELSE LET modelDef == loaded[1] IN
         IF IncludesThrows(modelDef, user.role)
         THEN ErrorResponse(500, "Failed to create record")
         ELSE IF ~Includes(Permissions(modelDef, user.role), "create")
         THEN ErrorResponse(403, "Insufficient permissions")
         ELSE IF FirstMissing(modelDef, body) # 0
         THEN FieldRequired(modelDef.fields[FirstMissing(modelDef, body)].name)
         ELSE Response(201, "",
                Spread(Spread([k \in {"id"} |-> Str("mock-<now>")], body),
                       [k \in {"createdAt", "updatedAt"} |-> NowISO]))

\* Mutant of PUT: the ownership test lacks `&& userRole !== 'Admin'`.
PUT_NoAdminBypass(loaded, user, id, body) ==
    IF ~Truthy(Str(id)) THEN ErrorResponse(400, "Record ID is required")
    ELSE IF loaded = <<>> THEN ErrorResponse(404, "Model not found")
    ELSE LET modelDef == loaded[1] IN
         IF IncludesThrows(modelDef, user.role)
         THEN ErrorResponse(500, "Failed to update record")
         ELSE IF ~Includes(Permissions(modelDef, user.role), "update")
         THEN ErrorResponse(403, "Insufficient permissions")
         ELSE IF /\ Truthy(Get(modelDef, "ownerField"))
                 /\ Get(body, Get(modelDef, "ownerField")[2]) # Str(user.id)
         THEN ErrorResponse(403, "You can only update your own records")
         ELSE Response(200, "",
                Spread(Spread([k \in {"id"} |-> Str(id)], body),
                       [k \in {"updatedAt"} |-> NowISO]))

\* Mutant of PUT: the required-field loop of POST is run on updates too.
PUT_ValidatesRequired(loaded, user, id, body) ==
    IF ~Truthy(Str(id)) THEN ErrorResponse(400, "Record ID is required")
    ELSE IF loaded = <<>> THEN ErrorResponse(404, "Model not found")
    ELSE LET modelDef == loaded[1] IN
         IF IncludesThrows(modelDef, user.role)
         THEN ErrorResponse(500, "Failed to update record")
         ELSE IF ~Includes(Permissions(modelDef, user.role), "update")
         THEN ErrorResponse(403, "Insufficient permissions")
         ELSE IF /\ Truthy(Get(modelDef, "ownerField"))
                 /\ Get(body, Get(modelDef, "ownerField")[2]) # Str(user.id)
                 /\ user.role # "Admin"
         THEN ErrorResponse(403, "You can only update your own records")
         ELSE IF FirstMissing(modelDef, body) # 0
         THEN FieldRequired(modelDef.fields[FirstMissing(modelDef, body)].name)
         ELSE Response(200, "",
                Spread(Spread([k \in {"id"} |-> Str(id)], body),
                       [k \in {"updatedAt"} |-> NowISO]))

\* PUT: id, load, role check for 'update', ownership on the payload, mock record.
PUT(loaded, user, id, body) ==
    IF ~Truthy(Str(id)) THEN ErrorResponse(400, "Record ID is required")
    ELSE IF loaded = <<>> THEN ErrorResponse(404, "Model not found")
    ELSE LET modelDef == loaded[1] IN
         IF IncludesThrows(modelDef, user.role)
         THEN ErrorResponse(500, "Failed to update record")
         ELSE IF ~Includes(Permissions(modelDef, user.role), "update")
         THEN ErrorResponse(403, "Insufficient permissions")
         ELSE IF /\ Truthy(Get(modelDef, "ownerField"))
                 /\ Get(body, Get(modelDef, "ownerField")[2]) # Str(user.id)
                 /\ user.role # "Admin"
         THEN ErrorResponse(403, "You can only update your own records")
         ELSE Response(200, "",
                Spread(Spread([k \in {"id"} |-> Str(id)], body),
                       [k \in {"updatedAt"} |-> NowISO]))

\* Mutant of DELETE: the ownership rule is applied whether or not the model
\* has an ownerField.
DELETE_OwnerAlways(loaded, user, id) ==
    IF ~Truthy(Str(id)) THEN ErrorResponse(400, "Record ID is required")
    ELSE IF loaded = <<>> THEN ErrorResponse(404, "Model not found")
    ELSE LET modelDef == loaded[1] IN
         IF IncludesThrows(modelDef, user.role)
         THEN ErrorResponse(500, "Failed to delete record")
         ELSE IF ~Includes(Permissions(modelDef, user.role), "delete")
         THEN ErrorResponse(403, "Insufficient permissions")
         ELSE IF user.role # "Admin"
         THEN ErrorResponse(403, "You can only delete your own records")
         ELSE Response(200, "", EmptyObject)

\* DELETE: id, load, role check for 'delete', ownership, mock deletion.
DELETE(loaded, user, id) ==
    IF ~Truthy(Str(id)) THEN ErrorResponse(400, "Record ID is required")
    ELSE IF loaded = <<>> THEN ErrorResponse(404, "Model not found")
    ELSE LET modelDef == loaded[1] IN
         IF IncludesThrows(modelDef, user.role)
         THEN ErrorResponse(500, "Failed to delete record")
         ELSE IF ~Includes(Permissions(modelDef, user.role), "delete")
         THEN ErrorResponse(403, "Insufficient permissions")
         ELSE IF Truthy(Get(modelDef, "ownerField")) /\ user.role # "Admin"
         THEN ErrorResponse(403, "You can only delete your own records")
         ELSE Response(200, "", EmptyObject)

\* ---------------------------------------------------------------- requests

\* No request in flight.
Idle ==
    [kind |-> "idle", pc |-> "idle", user |-> DemoUser, modelName |-> "",
     action |-> "", id |-> NoId, body |-> EmptyObject, modelDef |-> <<>>,
     fetched |-> FALSE, allowed |-> FALSE, threw |-> FALSE, invoked |-> FALSE,
     status |-> 0, error |-> "", named |-> <<>>, record |-> EmptyObject]

\* rbac.checkPermission({user, modelName, action, resourceId}) is called.
CheckPermissionCall(user, modelName, action, resourceId) ==
    /\ req.pc = "idle"
    /\ req' = [Idle EXCEPT !.kind = "checkPermission", !.pc = "load",
                           !.user = user, !.modelName = modelName,
                           !.action = action, !.id = resourceId]
    /\ UNCHANGED <<files, records, now, ops, dbVars>>

\* `await loadModel` resolves; checkPermission runs up to its return or up to
\* the fetch of checkOwnership.
CheckPermissionLoad ==
    /\ req.kind = "checkPermission" /\ req.pc = "load"
    /\ LET loaded == loadModel(files, req.modelName)
           verdict == checkPermissionAfterLoad(loaded, req.user, req.action, req.id)
       IN  req' = [req EXCEPT !.modelDef = loaded,
                              !.fetched = (verdict = "fetch"),
                              !.allowed = (verdict = "allow"),
                              !.pc = IF verdict = "fetch" THEN "fetch" ELSE "done"]
    /\ UNCHANGED <<files, records, now, ops, dbVars>>

\* Mutant of CheckOwnershipReturn: the ownerField is read from the definition
\* file again when the fetch resolves.
CheckOwnershipReturn_Reload(fetchThrows) ==
    /\ req.kind = "checkPermission" /\ req.pc = "fetch"
    /\ LET again == loadModel(files, req.modelName)
           ownerField == IF again = <<>> THEN ""
                         ELSE Get(again[1], "ownerField")[2]
       IN  req' = [req EXCEPT
                     !.allowed = /\ ~fetchThrows
                                 /\ checkOwnership(records, req.id, ownerField,
                                                   req.user.id),
                     !.threw = fetchThrows,
                     !.pc = "done"]
    /\ UNCHANGED <<files, records, now, ops, dbVars>>

\* The fetch of checkOwnership resolves and checkPermission returns the
\* result of checkOwnership, or the fetch throws and both catch blocks end in
\* `return false`.  The ownerField is the one of the definition loaded.
CheckOwnershipReturn(fetchThrows) ==
    /\ req.kind = "checkPermission" /\ req.pc = "fetch"
    /\ req' = [req EXCEPT
                 !.allowed = /\ ~fetchThrows
                             /\ checkOwnership(records, req.id,
                                    Get(req.modelDef[1], "ownerField")[2],
                                    req.user.id),
                 !.threw = fetchThrows,
                 !.pc = "done"]
    /\ UNCHANGED <<files, records, now, ops, dbVars>>

\* Mutant of middleware: the result of checkPermission is not looked at.
middleware_FailOpen(hasPermission) == Response(0, "", EmptyObject)

\* middleware, after `await this.checkPermission(...)`: the 403 response, or
\* null (status 0) to let the request continue.
middleware(hasPermission) ==
    IF ~hasPermission THEN ErrorResponse(403, "Insufficient permissions")
    ELSE Response(0, "", EmptyObject)

\* The checkPermission call was made by middleware, which turns the result
\* into its own return value.
MiddlewareReturn ==
    /\ req.kind = "checkPermission" /\ req.pc = "done"
    /\ LET resp == middleware(req.allowed)
       IN  req' = [req EXCEPT !.kind = "middleware",
                              !.status = resp.status, !.error = resp.error]
    /\ UNCHANGED <<files, records, now, ops, dbVars>>

\* middleware when options.getResourceId throws: the catch block answers 500
\* and checkPermission is never called.
MiddlewareThrows(user, modelName, action) ==
    /\ req.pc = "idle"
    /\ LET resp == ErrorResponse(500, "Authentication error")
       IN  req' = [Idle EXCEPT !.kind = "middleware", !.pc = "done",
                               !.user = user, !.modelName = modelName,
                               !.action = action, !.threw = TRUE,
                               !.status = resp.status, !.error = resp.error]
    /\ UNCHANGED <<files, records, now, ops, dbVars>>

\* withRBAC, after `await rbac.middleware(request, options)`: a response of
\* the middleware is returned as it is, on null the handler is invoked.
withRBAC(middlewareResult) == middlewareResult.status = 0

\* The middleware call was made by the function withRBAC returns.
WithRBACReturn ==
    /\ req.kind = "middleware" /\ req.pc = "done"
    /\ req' = [req EXCEPT !.kind = "withRBAC",
                          !.invoked = withRBAC([status |-> req.status])]
    /\ UNCHANGED <<files, records, now, ops, dbVars>>

\* The request record once a CRUD route handler has answered: `resp` is its
\* NextResponse.
Answered(kind, action, user, modelName, id, body, loaded, resp) ==
    [Idle EXCEPT !.kind = kind, !.pc = "done", !.action = action,
                 !.user = user, !.modelName = modelName, !.id = id,
                 !.body = body, !.modelDef = loaded,
                 !.status = resp.status, !.error = resp.error,
                 !.named = resp.named, !.record = resp.record]

\* The user of a route handler is its auth context; the demo's literals
\* ('Admin', 'user-1', "In real app, get from auth context") are DemoUser.
CrudGET(user, modelName, id) ==
    /\ req.pc = "idle"
    /\ LET loaded == loadModel(files, modelName)
       IN  req' = Answered("GET", "read", user, modelName, id, EmptyObject,
                           loaded, GET(loaded, user, id))
    /\ UNCHANGED <<files, records, now, ops, dbVars>>

CrudPOST(user, modelName, body) ==
    /\ req.pc = "idle"
    /\ LET loaded == loadModel(files, modelName)
       IN  req' = Answered("POST", "create", user, modelName, NoId, body,
                           loaded, POST(loaded, user, body))
    /\ UNCHANGED <<files, records, now, ops, dbVars>>

\* PUT and DELETE test the id before they load the definition: without an id
\* nothing is loaded.
CrudPUT(user, modelName, id, body) ==
    /\ req.pc = "idle"
    /\ LET loaded == IF Truthy(Str(id)) THEN loadModel(files, modelName) ELSE <<>>
       IN  req' = Answered("PUT", "update", user, modelName, id, body,
                           loaded, PUT(loaded, user, id, body))
    /\ UNCHANGED <<files, records, now, ops, dbVars>>

CrudDELETE(user, modelName, id) ==
    /\ req.pc = "idle"
    /\ LET loaded == IF Truthy(Str(id)) THEN loadModel(files, modelName) ELSE <<>>
       IN  req' = Answered("DELETE", "delete", user, modelName, id, EmptyObject,
                           loaded, DELETE(loaded, user, id))
    /\ UNCHANGED <<files, records, now, ops, dbVars>>

\* The caller takes the result; the next request may start.
Respond ==
    /\ req.pc = "done"
    /\ req' = Idle
    /\ UNCHANGED <<files, records, now, ops, dbVars>>

\* ----------------------------------------------- authorization specification

Init ==
    /\ files \in {[m \in ModelNames |-> IF m = "Task" THEN f ELSE <<>>] :
                     f \in {<<>>} \cup {<<JSONstringify(d)>> : d \in AuthDefs}}
    /\ records \in [ResIds -> {NoRecord} \cup Users]
    /\ req = Idle
    /\ now = 0
    /\ ops = [p \in Procs |-> IdleOp]
    /\ EmptyDb

Next ==
    \/ \E user \in Principals, a \in Actions, id \in IdInputs :
          CheckPermissionCall(user, "Task", a, id)
    \/ CheckPermissionLoad
    \/ \E fetchThrows \in BOOLEAN : CheckOwnershipReturn(fetchThrows)
    \/ MiddlewareReturn
    \/ \E user \in Principals, id \in IdInputs : CrudGET(user, "Task", id)
    \/ \E user \in Principals, body \in AuthBodies : CrudPOST(user, "Task", body)
    \/ \E user \in Principals, id \in IdInputs, body \in AuthBodies :
          CrudPUT(user, "Task", id, body)
    \/ \E user \in Principals, id \in IdInputs : CrudDELETE(user, "Task", id)
    \/ Respond

Spec == Init /\ [][Next]_vars

\* -------------------------------------------------- middleware specification

\* withRBAC and the update and delete routes, over a definition file that is
\* absent, unparsable (empty) or holds a definition, and records owned by the
\* caller, by somebody else or by nobody.
MiddlewareDefs ==
    {ModelDefinition("Task", TaskFields, o,
                     [r \in {"Admin", "Manager"} |->
                         IF r = "Admin" THEN AllActions ELSE pl]) :
        o \in OwnerFields, pl \in PermLists}

InitMiddleware ==
    /\ files \in {[m \in ModelNames |-> IF m = "Task" THEN f ELSE <<>>] :
                     f \in {<<>>, << <<>> >>}
                            \cup {<<JSONstringify(d)>> : d \in MiddlewareDefs}}
    /\ records \in [ResIds -> {NoRecord} \cup Owners]
    /\ req = Idle
    /\ now = 0
    /\ ops = [p \in Procs |-> IdleOp]
    /\ EmptyDb

NextMiddleware ==
    \/ \E user \in Principals, a \in Actions, id \in IdInputs :
          CheckPermissionCall(user, "Task", a, id)
    \/ CheckPermissionLoad
    \/ \E fetchThrows \in BOOLEAN : CheckOwnershipReturn(fetchThrows)
    \/ MiddlewareReturn
    \/ \E user \in Principals, a \in Actions : MiddlewareThrows(user, "Task", a)
    \/ WithRBACReturn
    \/ \E user \in Principals, id \in IdInputs, body \in AuthBodies :
          CrudPUT(user, "Task", id, body)
    \/ \E user \in Principals, id \in IdInputs : CrudDELETE(user, "Task", id)
    \/ Respond

SpecMiddleware == InitMiddleware /\ [][NextMiddleware]_vars

\* ------------------------------------------------------- store specification

\* Definitions handed to saveModel: two well-formed ones for Task (with and
\* without ownerField), one for Product, and three ill-formed ones (a repeated
\* field name, no field, an rbac action that is no CRUD action).
TaskWithOwner == ModelDefinition("Task", TaskFields, Str("ownerId"), DefaultRbac)
TaskWithoutOwner == [name |-> "Task", fields |-> TaskFields, rbac |-> DefaultRbac]
ProductPlain ==
    ModelDefinition("Product", << Field("name", "string", TRUE, Undefined) >>,
                    Undefined, DefaultRbac)
DuplicateFieldNames ==
    ModelDefinition("Task", << Field("title", "string", TRUE, Undefined),
                               Field("title", "number", FALSE, Undefined) >>,
                    Undefined, DefaultRbac)
NoFields == ModelDefinition("Task", <<>>, Undefined, DefaultRbac)
UnknownAction ==
    ModelDefinition("Task", TaskFields, Undefined,
                    [r \in {"Admin"} |-> <<"read", "publish">>])

WellFormedDefs == {TaskWithOwner, TaskWithoutOwner, ProductPlain}
StoreDefs == WellFormedDefs \cup {DuplicateFieldNames, NoFields, UnknownAction}

\* The `updates` handed to updateModel.
UpdateInputs ==
    {EmptyObject, [k \in {"ownerField"} |-> Str("ownerId")]}

\* What a file of the models directory may hold at start: nothing, a
\* definition saved at millisecond 0, or the empty file an interrupted
\* fs.writeFile leaves behind.
Stored(name) ==
    {<<>>, << <<>> >>}
        \cup {<<JSONstringify(modelWithMetadata(d, 0, 0))>> :
                 d \in {e \in WellFormedDefs : e.name = name}}

\* The listings readdir may return: the file names in any order.
DirListings ==
    {dir \in UNION {[1..n -> ModelNames] : n \in 0..Cardinality(ModelNames)} :
        \A i, j \in DOMAIN dir : dir[i] = dir[j] => i = j}

InitStore ==
    /\ files \in {f \in [ModelNames -> UNION {Stored(n) : n \in ModelNames}] :
                     \A n \in ModelNames : f[n] \in Stored(n)}
    /\ records = [id \in ResIds |-> NoRecord]
    /\ req = Idle
    /\ now = 1
    /\ ops = [p \in Procs |-> IdleOp]
    /\ EmptyDb

\* One caller at a time.
NextStore ==
    \/ \E d \in StoreDefs, dt \in {0, 1} : SaveModelCall("p1", d, dt)
    \/ \E n \in ModelNames, u \in UpdateInputs : UpdateModelCall("p1", n, u)
    \/ WriteFileOpen("p1")
    \/ WriteFileWrite("p1")
    \/ \E n \in ModelNames : LoadModelCall("p1", n)
    \/ \E dir \in DirListings : LoadAllModelsCall("p1", dir)
    \/ Return("p1")
    \/ Tick

SpecStore == InitStore /\ [][NextStore]_vars

\* -------------------------------------------------- concurrent specification

\* The Task definition is stored; the callers save, update and load it
\* concurrently.
InitConcurrent ==
    /\ files \in {[m \in ModelNames |-> IF m = "Task" THEN f ELSE <<>>] :
                     f \in {<<JSONstringify(modelWithMetadata(d, 0, 0))>> :
                               d \in {TaskWithOwner, TaskWithoutOwner}}}
    /\ records = [id \in ResIds |-> NoRecord]
    /\ req = Idle
    /\ now = 1
    /\ ops = [p \in Procs |-> IdleOp]
    /\ EmptyDb

NextConcurrent ==
    \E p \in Procs :
        \/ \E d \in {TaskWithOwner, TaskWithoutOwner}, dt \in {0, 1} :
              SaveModelCall(p, d, dt)
        \/ \E u \in UpdateInputs : UpdateModelCall(p, "Task", u)
        \/ WriteFileOpen(p)
        \/ WriteFileWrite(p)
        \/ LoadModelCall(p, "Task")
        \/ Return(p)

SpecConcurrent == InitConcurrent /\ [][NextConcurrent]_vars

\* ---------------------------------------------------- snapshot specification

\* Requests on Task while the Task definition is published again.
SnapshotUsers == [id : Users, role : {"Admin", "Manager"}]

InitSnapshot ==
    /\ files \in {[m \in ModelNames |-> IF m = "Task" THEN f ELSE <<>>] :
                     f \in {<<JSONstringify(modelWithMetadata(d, 0, 0))>> :
                               d \in {TaskWithOwner, TaskWithoutOwner}}}
    /\ records \in [ResIds -> {NoRecord} \cup Users]
    /\ req = Idle
    /\ now = 1
    /\ ops = [p \in Procs |-> IdleOp]
    /\ EmptyDb

NextSnapshot ==
    \/ \E user \in SnapshotUsers, a \in {"update", "delete"}, id \in IdInputs :
          CheckPermissionCall(user, "Task", a, id)
    \/ CheckPermissionLoad
    \/ \E fetchThrows \in BOOLEAN : CheckOwnershipReturn(fetchThrows)
    \/ \E user \in SnapshotUsers, body \in AuthBodies : CrudPOST(user, "Task", body)
    \/ Respond
    \/ \E d \in {TaskWithOwner, TaskWithoutOwner} : SaveModelCall("p1", d, 0)
    \/ WriteFileOpen("p1")
    \/ WriteFileWrite("p1")
    \/ Return("p1")

SpecSnapshot == InitSnapshot /\ [][NextSnapshot]_vars

\* ------------------------------------------------------------ model designer

\* String.prototype.toLowerCase on a model name.
toLowerCase(s) ==
    CASE s = "Task" -> "task"
      [] s = "Product" -> "product"
      [] OTHER -> s

\* `name` of a request body: undefined and '' are both falsy, and the
\* handlers only test `!name` and `name || ...`.
NameOf(body) == IF "name" \in DOMAIN body THEN body.name ELSE ""

\* JSON.stringify({ fields, ownerField, rbac }) of the column `definition`.
DefinitionText(obj) ==
    JSONstringify([k \in DOMAIN obj \cap {"fields", "ownerField", "rbac"} |-> obj[k]])

\* `name TEXT UNIQUE`: another row holds the name.
NameTaken(name, id) ==
    \E i \in ModelIds \ {id} : db[i] # <<>> /\ db[i][1].name = name

\* The answer of a handler of /api/models.
ModelsAnswered(kind, name, id, body, resp) ==
    Answered(kind, "", DemoUser, name, id, body, <<>>, resp)

\* POST /api/models: the body is validated, then db.modelDefinition.create
\* inserts the row (tableName is not sent: the column is null; isPublished
\* takes its default).  A name in use makes create throw.
ModelsPOST(body) ==
    /\ req.pc = "idle"
    /\ LET name == NameOf(body)
       IN  IF \/ name = ""
              \/ "fields" \notin DOMAIN body
              \/ Len(body.fields) = 0
           THEN /\ req' = ModelsAnswered("models.POST", name, NoId, body,
                              ErrorResponse(400, "Invalid model definition"))
                /\ db' = db
           ELSE IF NameTaken(name, NoModel)
           THEN /\ req' = ModelsAnswered("models.POST", name, NoId, body,
                              ErrorResponse(500, "Failed to create model"))
                /\ db' = db
           ELSE \E id \in ModelIds :
                   /\ db[id] = <<>>
                   /\ db' = [db EXCEPT ![id] =
                               <<[name |-> name, tableName |-> Null,
                                  definition |-> DefinitionText(body),
                                  isPublished |-> FALSE]>>]
                   /\ req' = ModelsAnswered("models.POST", name, id, body,
                                 Response(201, "", EmptyObject))
    /\ UNCHANGED <<files, records, now, ops, publishing, history>>

\* PUT /api/models/{id}: each column keeps its value where the body's member
\* is falsy (an array, the empty one included, is truthy).
ModelsPUT(id, body) ==
    /\ req.pc = "idle"
    /\ IF db[id] = <<>>
       THEN /\ req' = ModelsAnswered("models.PUT", NameOf(body), id, body,
                          ErrorResponse(404, "Model not found"))
            /\ db' = db
       ELSE LET existingModel == db[id][1]
                parsed == JSONparse(existingModel.definition)
                name == IF NameOf(body) # "" THEN body.name ELSE existingModel.name
                definition ==
                    [fields |-> IF "fields" \in DOMAIN body THEN body.fields
                                ELSE parsed.fields,
                     ownerField |-> IF Truthy(Get(body, "ownerField"))
                                    THEN body.ownerField
                                    ELSE Get(parsed, "ownerField"),
                     rbac |-> IF "rbac" \in DOMAIN body THEN body.rbac
                              ELSE parsed.rbac]
            IN  IF NameTaken(name, id)
                THEN /\ req' = ModelsAnswered("models.PUT", name, id, body,
                                   ErrorResponse(500, "Failed to update model"))
                     /\ db' = db
                ELSE /\ db' = [db EXCEPT ![id] =
                                 <<[existingModel EXCEPT
                                      !.name = name,
                                      !.definition = DefinitionText(definition)]>>]
                     /\ req' = ModelsAnswered("models.PUT", name, id, body,
                                   Response(200, "", EmptyObject))
    /\ UNCHANGED <<files, records, now, ops, publishing, history>>

\* DELETE /api/models/{id}: the row is deleted; nothing else is touched.
ModelsDELETE(id) ==
    /\ req.pc = "idle"
    /\ IF db[id] = <<>>
       THEN /\ req' = ModelsAnswered("models.DELETE", "", id, EmptyObject,
                          ErrorResponse(404, "Model not found"))
            /\ UNCHANGED <<db, history>>
       ELSE /\ db' = [db EXCEPT ![id] = <<>>]
            /\ history' = [history EXCEPT !.deleted = @ \cup {db[id][1].name}]
            /\ req' = ModelsAnswered("models.DELETE", db[id][1].name, id,
                          EmptyObject, Response(200, "", EmptyObject))
    /\ UNCHANGED <<files, records, now, ops, publishing>>

\* POST /api/models/{id}/publish up to the call of fs.writeFile in saveModel,
\* or to the 404 when the row is not found.
PublishCall(p, id) ==
    /\ ops[p].pc = "idle"
    /\ IF db[id] = <<>>
       THEN /\ ops' = [ops EXCEPT ![p] =
                         [IdleOp EXCEPT !.kind = "publish", !.pc = "answered",
                                        !.result = <<404>>]]
            /\ UNCHANGED publishing
       ELSE LET model == db[id][1]
                definition == JSONparse(model.definition)
                saved == Spread([name |-> model.name, tableName |-> model.tableName],
                                definition)
            IN  /\ ops' = [ops EXCEPT ![p] =
                             [IdleOp EXCEPT !.kind = "publish", !.pc = "open",
                                 !.name = saved.name, !.input = saved,
                                 !.data = JSONstringify(modelWithMetadata(saved, now, now)),
                                 !.before = files[saved.name]]]
                /\ publishing' = [publishing EXCEPT ![p] = id]
    /\ UNCHANGED <<files, records, req, now, db, history>>

\* saveModel has resolved: db.modelDefinition.update marks the row published;
\* it throws when the row is gone, and the catch answers 500.
PublishMark(p) ==
    /\ ops[p].kind = "publish" /\ ops[p].pc = "done"
    /\ LET id == publishing[p]
       IN  IF db[id] = <<>>
           THEN /\ ops' = [ops EXCEPT ![p].pc = "answered", ![p].result = <<500>>]
                /\ UNCHANGED <<db, history>>
           ELSE /\ db' = [db EXCEPT ![id] = <<[db[id][1] EXCEPT !.isPublished = TRUE]>>]
                /\ history' = [history EXCEPT !.published = @ \cup {db[id][1].name}]
                /\ ops' = [ops EXCEPT ![p].pc = "answered", ![p].result = <<200>>]
    /\ UNCHANGED <<files, records, req, now, publishing>>

\* The publish request is answered.
PublishReturn(p) ==
    /\ ops[p].kind = "publish" /\ ops[p].pc = "answered"
    /\ ops' = [ops EXCEPT ![p] = IdleOp]
    /\ publishing' = [publishing EXCEPT ![p] = NoModel]
    /\ UNCHANGED <<files, records, req, now, db, history>>

\* ModelDataAdmin.fetchRecords for the row the list handed over: GET
\* /api/crud/${model.name.toLowerCase()}.  Whether `${modelName}.json` names
\* the file saved as `${model.name}.json` is the file system's choice
\* (caseFolding: it compares names without regard to case).
FetchRecords(id, caseFolding) ==
    /\ req.pc = "idle"
    /\ db[id] # <<>>
    /\ LET modelName == toLowerCase(db[id][1].name)
           loaded == loadModel(files, IF caseFolding THEN db[id][1].name
                                      ELSE modelName)
       IN  req' = Answered("GET", "read", DemoUser, modelName, NoId, EmptyObject,
                           loaded, GET(loaded, DemoUser, NoId))
    /\ UNCHANGED <<files, records, now, ops, dbVars>>

\* The bodies sent to POST /api/models: a definition the form accepts, one
\* with an empty name, one with no field and one without the key `fields`.
ModelBodies ==
    {TaskWithoutOwner, NoFields,
     [TaskWithoutOwner EXCEPT !.name = ""],
     [k \in {"name", "rbac"} |-> TaskWithoutOwner[k]]}

\* The bodies sent to PUT /api/models/{id}: a new name, an empty list of
\* fields, an ownerField.
ModelUpdates ==
    {[k \in {"name"} |-> "Product"],
     [k \in {"fields"} |-> <<>>],
     [k \in {"ownerField"} |-> Str("ownerId")]}

\* No model is defined and no definition file exists.
InitModels ==
    /\ files = [m \in ModelNames |-> <<>>]
    /\ records = [id \in ResIds |-> NoRecord]
    /\ req = Idle
    /\ now = 1
    /\ ops = [p \in Procs |-> IdleOp]
    /\ EmptyDb

\* The requests that create, edit and delete the rows of the table.
NextModels ==
    \/ \E body \in ModelBodies : ModelsPOST(body)
    \/ \E id \in ModelIds, body \in ModelUpdates : ModelsPUT(id, body)
    \/ \E id \in ModelIds : ModelsDELETE(id)
    \/ Respond

SpecModels == InitModels /\ [][NextModels]_vars

\* ----------------------------------------------------- publish specification

\* The edit of the publish specification: an ownerField is set.
PublishUpdates == {[k \in {"ownerField"} |-> Str("ownerId")]}

\* Model Task is created, edited, published and deleted while CRUD requests
\* and the admin UI address it.
NextPublish ==
    \/ ModelsPOST(TaskWithoutOwner)
    \/ \E id \in ModelIds, body \in PublishUpdates : ModelsPUT(id, body)
    \/ \E id \in ModelIds : ModelsDELETE(id)
    \/ \E id \in ModelIds : PublishCall("p1", id)
    \/ WriteFileOpen("p1")
    \/ WriteFileWrite("p1")
    \/ PublishMark("p1")
    \/ PublishReturn("p1")
    \/ CrudGET(DemoUser, "Task", NoId)
    \/ \E id \in ModelIds, caseFolding \in BOOLEAN : FetchRecords(id, caseFolding)
    \/ Respond

SpecPublish == InitModels /\ [][NextPublish]_vars

\* -------------------------------------------------- validation specification

\* The store holds a Product definition (or none) and no records; create and
\* update requests carry the payloads of ValidationBodies.
InitValidation ==
    /\ files \in {[m \in ModelNames |-> IF m = "Product" THEN f ELSE <<>>] :
                     f \in {<<>>} \cup {<<JSONstringify(d)>> : d \in ValidationDefs}}
    /\ records = [id \in ResIds |-> NoRecord]
    /\ req = Idle
    /\ now = 0
    /\ ops = [p \in Procs |-> IdleOp]
    /\ EmptyDb

NextValidation ==
    \/ \E user \in ValidationUsers, body \in ValidationBodies :
          CrudPOST(user, "Product", body)
    \/ \E user \in ValidationUsers, id \in IdInputs, body \in ValidationBodies :
          CrudPUT(user, "Product", id, body)
    \/ Respond

SpecValidation == InitValidation /\ [][NextValidation]_vars

\* ==================================================================== claims

\* The vocabulary of the claims, stated on the definition document itself.

\* "action A is in rbac[R]".
Listed(modelDef, role, action) ==
    /\ role \in DOMAIN modelDef.rbac
    /\ \E i \in DOMAIN modelDef.rbac[role] : modelDef.rbac[role][i] = action

\* "the model has an ownerField".
OwnerFieldSet(modelDef) == Get(modelDef, "ownerField") \notin {Undefined, Str("")}

\* An authorization was decided on a loaded definition.
Decided == req.pc = "done" /\ req.modelDef # <<>>

IsRoute == req.kind \in {"GET", "POST", "PUT", "DELETE"}

\* The verdict of the request in flight: checkPermission's return value, or a
\* route handler getting past its permission and ownership checks (POST may
\* still answer 400 for a required field).
VerdictAllow ==
    IF req.kind \in {"checkPermission", "middleware", "withRBAC"} THEN req.allowed
    ELSE \/ req.status \in {200, 201}
         \/ req.kind = "POST" /\ req.status = 400

\* The owner value the record store holds for the record the request names.
StoredOwner == IF req.id \in DOMAIN records THEN records[req.id] ELSE NoRecord

\* C1: default-deny.  Whenever the action is not in rbac[role] (the role
\* unlisted included), the verdict is Deny and no successful response is
\* given, whatever the ownerField, the resource id and the record's owner are.
C1_DefaultDeny ==
    (Decided /\ ~Listed(req.modelDef[1], req.user.role, req.action))
        => (~VerdictAllow /\ req.status \notin {200, 201})

\* C1 witness: an unlisted role asks to update the very record it owns, on a
\* model with an ownerField, and is denied.
C1_Witness ==
    /\ Decided /\ req.kind = "checkPermission"
    /\ req.user.role = "Viewer" /\ req.action = "update"
    /\ OwnerFieldSet(req.modelDef[1])
    /\ StoredOwner = req.user.id
    /\ ~req.allowed

\* C2: Admin bypass.  An Admin whose rbac entry lists the action is allowed to
\* update and to delete on a model with an ownerField, for every owner value
\* of the record, a foreign owner and a missing record included.
C2_AdminBypass ==
    (/\ Decided
     /\ req.user.role = "Admin"
     /\ req.action \in {"update", "delete"}
     /\ Listed(req.modelDef[1], "Admin", req.action)
     /\ OwnerFieldSet(req.modelDef[1]))
        => (VerdictAllow /\ (IsRoute => req.status = 200))

\* C2 witness: an Admin updates a record that is not in the store, with a
\* payload naming another user as owner, and succeeds.
C2_Witness ==
    /\ Decided /\ req.kind = "PUT"
    /\ req.user = [id |-> "user-1", role |-> "Admin"]
    /\ OwnerFieldSet(req.modelDef[1])
    /\ StoredOwner = NoRecord
    /\ Get(req.body, "ownerId") = Str("user-2")
    /\ req.status = 200

\* C3 (as claimed): for a non-Admin whose rbac entry lists update, on a model
\* with an ownerField, checkPermission(update) allows if and only if the
\* target record's owner value equals the principal's id.
C3_UpdateIffOwner ==
    (/\ Decided /\ req.kind = "checkPermission"
     /\ req.action = "update"
     /\ req.user.role # "Admin"
     /\ Listed(req.modelDef[1], req.user.role, "update")
     /\ OwnerFieldSet(req.modelDef[1]))
        => (req.allowed <=> StoredOwner = req.user.id)

\* C4 (as claimed): a non-Admin holding the action is denied an update or a
\* delete on a model with an ownerField when no resource id is supplied.
C4_DenyWithoutResourceId ==
    (/\ Decided /\ req.kind = "checkPermission"
     /\ req.action \in {"update", "delete"}
     /\ req.user.role # "Admin"
     /\ Listed(req.modelDef[1], req.user.role, req.action)
     /\ OwnerFieldSet(req.modelDef[1])
     /\ req.id = NoId)
        => ~req.allowed

\* C5: where ownership does not apply (create and read on any model, update
\* and delete on a model without ownerField) the verdict is Allow exactly when
\* the action is in rbac[role].
C5_OwnershipNotApplicable ==
    (/\ Decided
     /\ \/ req.action \in {"create", "read"}
        \/ ~OwnerFieldSet(req.modelDef[1]))
        => (VerdictAllow <=> Listed(req.modelDef[1], req.user.role, req.action))

\* C5 witness: a Manager deletes, through the route, a record owned by
\* somebody else on a model whose ownerField is '' (unset), and succeeds.
C5_Witness ==
    /\ Decided /\ req.kind = "DELETE"
    /\ req.user.role = "Manager"
    /\ Get(req.modelDef[1], "ownerField") = Str("")
    /\ StoredOwner \in Users /\ StoredOwner # req.user.id
    /\ req.status = 200

\* C6: role check first.  An ownership lookup is issued only for a request
\* whose action is in rbac[role] of the definition it loaded.
C6_RoleCheckFirst ==
    req.fetched =>
        /\ req.modelDef # <<>>
        /\ Listed(req.modelDef[1], req.user.role, req.action)

\* C6 witness: a lookup is in flight for a non-Admin update.
C6_Witness ==
    /\ req.pc = "fetch" /\ req.fetched
    /\ req.user.role = "Manager" /\ req.action = "update"

OmitsRequiredNoDefault(modelDef, body) ==
    \E i \in DOMAIN modelDef.fields :
        /\ modelDef.fields[i].required
        /\ Get(modelDef.fields[i], "default") = Undefined
        /\ modelDef.fields[i].name \notin DOMAIN body

\* C9: required-ness is enforced at creation only.  A permitted create whose
\* payload omits a required field without default is rejected (400, naming a
\* required field the payload lacks); a permitted update with such a payload
\* is accepted and answers the payload as the record.
C9_RequiredOnCreateOnly ==
    (/\ Decided
     /\ Listed(req.modelDef[1], req.user.role, req.action)
     /\ OmitsRequiredNoDefault(req.modelDef[1], req.body))
        => /\ req.kind = "POST" =>
                /\ req.status = 400
                /\ req.error = "Field is required"
                /\ Len(req.named) = 1
                /\ \E i \in DOMAIN req.modelDef[1].fields :
                      /\ req.modelDef[1].fields[i].name = req.named[1]
                      /\ req.modelDef[1].fields[i].required
                      /\ ~Truthy(Get(req.body, req.named[1]))
           /\ req.kind = "PUT" =>
                /\ req.status = 200
                /\ \A k \in DOMAIN req.body : Get(req.record, k) = req.body[k]

\* C9 witness: an update is accepted with a payload that omits a required
\* field without default, the payload a create is rejected for.
C9_Witness ==
    /\ Decided /\ req.kind = "PUT" /\ req.status = 200
    /\ OmitsRequiredNoDefault(req.modelDef[1], req.body)
    /\ POST(req.modelDef, req.user, req.body).status = 400

\* The default of a field coerced to the field's type (number: parsed as a
\* floating-point number; boolean: "true"/"false"; otherwise the text).
CoercedDefault(field) ==
    CASE field.type = "number" -> Num(Get(field, "default")[2])
      [] field.type = "boolean" -> Bool(Get(field, "default")[2])
      [] OTHER -> Str(Get(field, "default")[2])

\* "the payload omits a field with a declared default".
OmittedDefaults(modelDef, body) ==
    {i \in DOMAIN modelDef.fields :
        /\ Get(modelDef.fields[i], "default") # Undefined
        /\ modelDef.fields[i].name \notin DOMAIN body}

\* Every field the payload supplies holds a non-empty, non-zero value, and no
\* required field without default is omitted: nothing but defaults is at stake.
OtherwiseValid(modelDef, body) ==
    /\ ~OmitsRequiredNoDefault(modelDef, body)
    /\ \A k \in DOMAIN body : Truthy(body[k])

\* C10 (as claimed): a permitted create whose payload omits fields with a
\* declared default (and is valid otherwise) succeeds, and the record holds
\* each such field with its default coerced to the field's type.
C10_DefaultsApplied ==
    (/\ Decided /\ req.kind = "POST"
     /\ Listed(req.modelDef[1], req.user.role, "create")
     /\ OtherwiseValid(req.modelDef[1], req.body)
     /\ OmittedDefaults(req.modelDef[1], req.body) # {})
        => /\ req.status = 201
           /\ \A i \in OmittedDefaults(req.modelDef[1], req.body) :
                 Get(req.record, req.modelDef[1].fields[i].name)
                    = CoercedDefault(req.modelDef[1].fields[i])

\* The names of the fields a create payload violates by omission: required,
\* no default, no value supplied.
OmittedRequired(modelDef, body) ==
    {modelDef.fields[i].name : i \in
        {j \in DOMAIN modelDef.fields :
            /\ modelDef.fields[j].required
            /\ Get(modelDef.fields[j], "default") = Undefined
            /\ modelDef.fields[j].name \notin DOMAIN body}}

\* The fields an error response names.
NamedFields == {req.named[i] : i \in DOMAIN req.named}

\* A permitted create whose payload violates two fields or more.
SeveralViolations ==
    /\ Decided /\ req.kind = "POST"
    /\ Listed(req.modelDef[1], req.user.role, "create")
    /\ Cardinality(OmittedRequired(req.modelDef[1], req.body)) >= 2

NoDefinition ==
    /\ IsRoute /\ req.pc = "done"
    /\ req.modelName \in DOMAIN files /\ files[req.modelName] = <<>>

SameField(f, g) == \A k \in DOMAIN f \cup DOMAIN g : Get(f, k) = Get(g, k)

\* Two definitions agree in attribute k.
SameAttribute(k, a, b) ==
    IF k \in OptionalKeys THEN Get(a, k) = Get(b, k)
    ELSE /\ k \in DOMAIN a /\ k \in DOMAIN b
         /\ IF k = "fields"
            THEN /\ Len(a[k]) = Len(b[k])
                 /\ \A i \in DOMAIN a[k] : SameField(a[k][i], b[k][i])
            ELSE a[k] = b[k]

\* Caller p has completed a saveModel, directly or through updateModel.
Saved(p) ==
    /\ ops[p].pc = "done"
    /\ ops[p].kind \in {"saveModel", "updateModel"}
    /\ ops[p].data # <<>>

\* What loadModel returned for the name before caller p's call.
LoadedBefore(p) == loadModel([n \in {ops[p].name} |-> ops[p].before], ops[p].name)

\* The first half of C15: the loaded definition equals the saved one in every
\* attribute but updatedAt.
RoundTripEqual(p) ==
    LET d == ops[p].input
        l == loadModel(files, ops[p].name)
    IN  /\ l # <<>>
        /\ \A k \in DOMAIN d \ {"updatedAt"} : SameAttribute(k, l[1], d)

\* The second half of C15: updatedAt is later than the one stored before.
UpdatedAtIncreased(p) ==
    LET l == loadModel(files, ops[p].name)
        prev == LoadedBefore(p)
    IN  (prev # <<>> /\ "updatedAt" \in DOMAIN prev[1])
            => /\ l # <<>>
               /\ TimeOf(l[1].updatedAt) > TimeOf(prev[1].updatedAt)

\* C15 (as claimed): after saveModel(d), with no other call in between,
\* loadModel(d.name) returns a definition equal to d in every attribute except
\* updatedAt (createdAt included), and updatedAt is strictly later than the
\* updatedAt stored under that name before.
C15_RoundTrip ==
    Saved("p1") => (RoundTripEqual("p1") /\ UpdatedAtIncreased("p1"))

\* Caller p has completed loadModel on a file that existed and did not parse.
LoadedCorrupt(p) ==
    /\ ops[p].pc = "done" /\ ops[p].kind = "loadModel"
    /\ ops[p].before # <<>>
    /\ ~Parsable(ops[p].before[1])

\* C16 (as claimed): when the stored content for a name exists but does not
\* parse, load reports a result other than the one it gives for an absent
\* name.
C16_CorruptDistinguished ==
    LoadedCorrupt("p1")
        => ops["p1"].result # loadModel(EmptyObject, ops["p1"].name)

\* The names whose file exists and parses.
ParsableNames == {n \in DOMAIN files : files[n] # <<>> /\ Parsable(files[n][1])}

\* C17: for a store holding any mix of parsable and unparsable definition
\* files, loadAllModels returns exactly the parsable definitions, each once,
\* and does not fail because of the unparsable ones.
C17_ListBestEffort ==
    (ops["p1"].pc = "done" /\ ops["p1"].kind = "loadAllModels")
        => LET models == ops["p1"].result IN
           /\ Len(models) = Cardinality(ParsableNames)
           /\ {models[i] : i \in DOMAIN models}
                 = {JSONparse(files[n][1]) : n \in ParsableNames}

\* C17 witness: loadAllModels over one parsable and one unparsable file
\* returns the one definition.
C17_Witness ==
    /\ ops["p1"].pc = "done" /\ ops["p1"].kind = "loadAllModels"
    /\ files["Task"] # <<>> /\ ~Parsable(files["Task"][1])
    /\ "Product" \in ParsableNames
    /\ Len(ops["p1"].result) = 1
    /\ ops["p1"].result[1].name = "Product"

\* A definition breaks an internal invariant: a repeated field name, no
\* field, or an rbac action outside {create, read, update, delete}.
InvalidDefinition(d) ==
    \/ \E i, j \in DOMAIN d.fields : i # j /\ d.fields[i].name = d.fields[j].name
    \/ d.fields = <<>>
    \/ \E r \in DOMAIN d.rbac : \E i \in DOMAIN d.rbac[r] : d.rbac[r][i] \notin Actions

\* C18 (as claimed): a definition with duplicate field names, an empty fields
\* list, or an rbac action outside {create, read, update, delete} is rejected
\* by save and the definition store is left unchanged.
C18_SaveValidates ==
    (/\ ops["p1"].pc = "done" /\ ops["p1"].kind = "saveModel"
     /\ InvalidDefinition(ops["p1"].input))
        => files[ops["p1"].name] = ops["p1"].before


\* C19 (as claimed): with the name already stored, a loadModel concurrent
\* with a saveModel on that name returns a complete definition (the one
\* stored before or the new one), never null.
C19_NoPartialRead ==
    \A p \in Procs :
        (ops[p].pc = "done" /\ ops[p].kind = "loadModel")
            => ops[p].result # <<>>

\* C20 (as claimed): after two concurrent saves for the same model name have
\* both completed, the stored text is in full the text written by the call
\* whose write happened last.
C20_LastWriteWins ==
    (Saved("p1") /\ Saved("p2") /\ ops["p1"].name = ops["p2"].name)
        => \E p \in Procs :
              /\ ops[p].last
              /\ Content(files, ops[p].name) = ops[p].data

\* The payload supplies a value for every required field, or leaves out only
\* required fields that have a declared default.
SuppliesRequired(modelDef, body) ==
    \A i \in DOMAIN modelDef.fields :
        modelDef.fields[i].required
            => \/ modelDef.fields[i].name \in DOMAIN body
               \/ Get(modelDef.fields[i], "default") # Undefined

\* C24 (as claimed): a permitted create whose payload supplies a value for
\* every required field (false, 0 and '' included), or omits only required
\* fields with a declared default, is never rejected as missing a required
\* field.
C24_MissingOnlyWhenAbsent ==
    (/\ Decided /\ req.kind = "POST"
     /\ Listed(req.modelDef[1], req.user.role, "create")
     /\ SuppliesRequired(req.modelDef[1], req.body))
        => req.error # "Field is required"

\* C27 (as claimed): the record produced by an update carries the id of the
\* request's id parameter, the record produced by a create carries the
\* server-generated id and the server-set createdAt and updatedAt; no key of
\* the payload overrides the id.
C27_ServerSetKeys ==
    /\ (Decided /\ req.kind = "PUT" /\ req.status = 200)
          => Get(req.record, "id") = Str(req.id)
    /\ (Decided /\ req.kind = "POST" /\ req.status = 201)
          => /\ Get(req.record, "id") = Str("mock-<now>")
             /\ Get(req.record, "createdAt") = NowISO
             /\ Get(req.record, "updatedAt") = NowISO

ResponseGiven ==
    [status |-> req.status, error |-> req.error, named |-> req.named,
     record |-> req.record]

\* An update or delete was refused to a principal who holds the permission
\* and is not the owner of the record named.
OwnershipDenial ==
    /\ Decided /\ req.kind \in {"middleware", "PUT", "DELETE"}
    /\ req.action \in {"update", "delete"}
    /\ Listed(req.modelDef[1], req.user.role, req.action)
    /\ OwnerFieldSet(req.modelDef[1])
    /\ StoredOwner \notin {NoRecord, req.user.id}
    /\ ~VerdictAllow

\* The response to the same request over the store in which the record named
\* is owned by `owner`.
ResponseWithOwner(owner) ==
    LET store == [records EXCEPT ![req.id] = owner] IN
    CASE req.kind = "middleware" ->
            middleware(checkPermission(files, store, req.user, req.modelName,
                                       req.action, req.id))
      [] req.kind = "PUT" -> PUT(req.modelDef, req.user, req.id, req.body)
      [] req.kind = "DELETE" -> DELETE(req.modelDef, req.user, req.id)

\* The texts a denial may carry: none holds a principal id.
DenialTexts ==
    {"Insufficient permissions", "You can only update your own records",
     "You can only delete your own records"}

\* C23: a denial for lack of ownership reveals nothing about the owner.  The
\* response to a non-owner's update or delete is the same for every other
\* non-matching owner value of the record, and it contains no principal id.
C23_DenialHidesOwner ==
    OwnershipDenial =>
        /\ \A owner \in Owners \ {req.user.id} :
              ResponseWithOwner(owner) = ResponseGiven
        /\ req.status = 403 /\ req.error \in DenialTexts
        /\ req.record = EmptyObject /\ req.named = <<>>

\* C23 witness: the middleware denies a Manager's update of a record owned by
\* a third party.
C23_Witness ==
    /\ OwnershipDenial /\ req.kind = "middleware"
    /\ req.user.role = "Manager" /\ req.action = "update"
    /\ StoredOwner = "user-3" /\ req.fetched /\ ~req.threw
    /\ req.status = 403

\* The function withRBAC returns has answered or has invoked the handler.
Wrapped == req.kind = "withRBAC" /\ req.pc = "done"

\* The definition file of the request is absent or does not parse.
DefinitionUnusable == loadModel(files, req.modelName) = <<>>

\* C29: withRBAC is fail-closed.  The wrapped handler is invoked if and only
\* if checkPermission returned true; when the definition is absent or
\* unparsable, or when getResourceId or the ownership fetch throws, the
\* handler is not invoked and the response is 403 or 500.
C29_WithRBACFailClosed ==
    Wrapped =>
        /\ req.invoked <=> req.allowed
        /\ req.invoked =>
              /\ ~DefinitionUnusable /\ ~req.threw
              /\ Listed(req.modelDef[1], req.user.role, req.action)
        /\ ~req.invoked => req.status \in {403, 500}
        /\ (DefinitionUnusable \/ req.threw) => ~req.invoked

\* C29 witness: over an unparsable definition file the Admin's request is
\* answered 403 and the handler is not invoked.
C29_Witness ==
    /\ Wrapped /\ req.user.role = "Admin"
    /\ files[req.modelName] = << <<>> >>
    /\ ~req.invoked /\ req.status = 403

\* The decision of checkPermission computed from the definition it loaded.
DecisionOnSnapshot ==
    LET verdict == checkPermissionAfterLoad(req.modelDef, req.user, req.action,
                                            req.id)
    IN  \/ verdict = "allow"
        \/ /\ verdict = "fetch" /\ ~req.threw
           /\ checkOwnership(records, req.id,
                             Get(req.modelDef[1], "ownerField")[2], req.user.id)

Rows == {db[i][1] : i \in {j \in ModelIds : db[j] # <<>>}}

\* The request answered was sent to POST /api/models or PUT /api/models/{id}
\* for an existing row, and what it asks to store has an empty name or no
\* field.
StoresIllFormed ==
    /\ req.pc = "done"
    /\ \/ /\ req.kind = "models.POST"
          /\ \/ NameOf(req.body) = ""
             \/ "fields" \notin DOMAIN req.body
             \/ Len(req.body.fields) = 0
       \/ /\ req.kind = "models.PUT" /\ req.status # 404
          /\ "fields" \in DOMAIN req.body
          /\ Len(req.body.fields) = 0

\* C30: after any sequence of POST /api/models and PUT /api/models/{id}
\* requests every row of the table has a non-empty name and a non-empty list
\* of fields, and a request that would store anything else is answered 400.
C30_DefinitionsWellFormed ==
    /\ \A row \in Rows :
          row.name # "" /\ Len(JSONparse(row.definition).fields) > 0
    /\ StoresIllFormed => req.status = 400

\* The definition store holds, under the row's name, a definition with the
\* row's fields, ownerField and rbac.
InSync(store, row) ==
    LET loaded == loadModel(store, row.name)
        definition == JSONparse(row.definition)
    IN  /\ loaded # <<>>
        /\ \A k \in {"fields", "ownerField", "rbac"} :
              Get(loaded[1], k) = Get(definition, k)

\* A step sets isPublished on row id.
MarksPublished(id) ==
    /\ db'[id] # <<>> /\ db'[id][1].isPublished
    /\ db[id] = <<>> \/ ~db[id][1].isPublished

\* isPublished is set only by a publish request whose saveModel has written
\* its document.
MarkedAfterWrite ==
    \A id \in ModelIds :
        MarksPublished(id) =>
            \E p \in Procs : /\ publishing[p] = id
                             /\ ops[p].pc = "done"
                             /\ Content(files, ops[p].name) = ops[p].data

\* C25: after any sequence of create, edit, publish and delete requests,
\* every row marked isPublished has, under its current name, a definition in
\* the definition store with the row's fields, ownerField and rbac; and
\* isPublished is set only after the definition has been written.
C25_PublishedInSync ==
    /\ [](\A row \in Rows : row.isPublished => InSync(files, row))
    /\ [][MarkedAfterWrite]_vars


\* A step in which a CRUD route handler answers a request.
CrudStep ==
    /\ req.pc = "idle" /\ req'.pc = "done"
    /\ req'.kind \in {"GET", "POST", "PUT", "DELETE"}

\* The answer given in the step is 404 'Model not found'.
ModelNotFound == req'.status = 404 /\ req'.error = "Model not found"

\* The names the rows of the table carry.
RowNames == {row.name : row \in Rows}

\* C26: once a model has been deleted through DELETE /api/models/{id}, every
\* later CRUD request naming it is answered 404 'Model not found'.
C26_DeletedNotLoadable ==
    [][(CrudStep /\ req'.modelName \in history.deleted \ RowNames)
          => ModelNotFound]_vars

\* The names a CRUD request may carry for model n: the name itself (the
\* documented endpoints) and its lower-cased form (the admin UI).
Addresses(n) == {n, toLowerCase(n)}

\* No definition is resolved for a model that has not been published.
NotBeforePublish ==
    req'.modelDef # <<>> =>
        \E n \in history.published : req'.modelName \in Addresses(n)

\* A request for a published model resolves its definition.
ResolvedOncePublished ==
    \A row \in Rows :
        (row.isPublished /\ req'.modelName \in Addresses(row.name))
            => ~ModelNotFound

\* C22: a CRUD request resolves no definition of a model that has not been
\* published, and the CRUD requests for a published model, under its name or
\* its lower-cased name, resolve its definition instead of ending in 'Model
\* not found'.
C22_PublishGates ==
    [][CrudStep => (NotBeforePublish /\ ResolvedOncePublished)]_vars

====
